---- MODULE Spec2Model ----
\* JS-style promises on C++20 coroutines: JS::Promise<T>, JS::Promise<void>
\* (src/include/Promise.h) and the coroutines that await and return them.
EXTENDS Integers, Sequences, FiniteSets, TLC

\* ---------------------------------------------------------------- bounds
\* API calls made in one run.
MaxOps == 4
\* Distinct payload values a caller passes to Resolve.
MaxVal == 2
\* User callbacks (closures that record their invocation).
NumCallbacks == 2
\* Awaiting coroutines per promise class.
NumAwaiters == 2
\* Promises that can be handed to All, Any or Race.
NumInputs == 2
\* Statements in the body of a generator coroutine.
MaxBody == 3

Values == 1..MaxVal
Reasons == {"e1", "e2"}
Callbacks == 1..NumCallbacks
Awaiters == 1..NumAwaiters

\* Promise<T> objects: 1 is constructed directly and settled by its owner,
\* 2 is the return object of the coroutine BodyCo.
Direct == 1
Returned == 2

\* The promises a combinator is given are 1..NumInputs; Combined is the
\* resultPromise it makes.
Inputs == 1..NumInputs
Combined == NumInputs + 1

\* The promise made by the k-th call of NextAsync.
Fetched(k) == Combined + k

\* A run makes at most one NextAsync call per call made and, in a consumer
\* loop, one more per consumer.
MaxFetched == MaxOps + NumAwaiters

PromiseIds ==
    {Direct, Returned} \cup Inputs \cup {Combined}
        \cup {Fetched(k) : k \in 1..MaxFetched}

\* The lambda a combinator registers for position i of its vector.
Lambda(i) == NumCallbacks + i

\* Coroutine handles. 0 is the null handle. Coroutines awaiting the
\* Promise<void> twin have their own frames.
VoidAwaiter(a) == NumAwaiters + a
BodyCo == 2 * NumAwaiters + 1
CoIds == 1..BodyCo

\* What a resume() of a handle whose coroutine is not suspended may do:
\* the frame was freed at final_suspend (suspend_never), so the call is
\* undefined: the process dies, nothing observable happens, or the stale
\* frame runs again from its last suspension point.
UBOutcomes == {"crash", "ignored", "rerun"}

VARIABLES
    st,       \* Promise<T>::State of every typed promise
    vst,      \* Promise<void>::State of the void twin
    co,       \* coroutine frames
    log,      \* deliveries made by typed promises, in order
    vlog,     \* deliveries made by the void twin, in order
    hist,     \* API calls made so far, in order
    crashed,  \* the process died on an undefined resume
    comb,     \* the Result a combinator call shares with its lambdas
    gen,      \* the State of the one AsyncGenerator
    producer, \* the generator coroutine: where it is and what is left of it
    timer     \* the timeout behind a Request and the value it will resolve

vars == <<st, vst, co, log, vlog, hist, crashed, comb, gen, producer,
          timer>>

\* ------------------------------------------------------------ data shapes
\* std::optional / exception_ptr / std::function: <<>> or 0 is empty.
NewState ==
    [value |-> <<>>, exception |-> <<>>, callingHandle |-> 0,
     thenCallback |-> 0, catchCallback |-> 0]

NewVoidState ==
    [resolved |-> FALSE, exception |-> <<>>, callingHandle |-> 0,
     thenCallback |-> 0, catchCallback |-> 0]

\* A payload carries the number of the call that created it, so that two
\* equal ints from two calls stay distinguishable (a move-only T).
Payload(x, tok) == [x |-> x, tok |-> tok]
Unit == Payload(0, 0)

NewFrame ==
    [pc |-> "idle", cls |-> "T", on |-> 0, ret |-> 0, fin |-> "log",
     x |-> 0, tok |-> 0, m |-> ""]

\* One delivery: to a then callback, a catch callback or an awaiter.
Delivered(to, id, val) ==
    [to |-> to, id |-> id, kind |-> "value", x |-> val.x, tok |-> val.tok, m |-> ""]
Raised(to, id, msg) ==
    [to |-> to, id |-> id, kind |-> "error", x |-> 0, tok |-> 0, m |-> msg]

Call(op, p, x, m, threw) ==
    [op |-> op, p |-> p, x |-> x, m |-> m, threw |-> threw]

\* The struct Result of All / Any / Race (flag is rejected / resolved /
\* finished), with the vector it was made for. A negative pending stands
\* for a size_t that wrapped below zero.
NoResult ==
    [kind |-> "none", ps |-> <<>>, values |-> <<>>, pending |-> 0,
     flag |-> FALSE, returned |-> FALSE]

NewResult(kind, ps) ==
    [kind |-> kind, ps |-> ps, values |-> [i \in 1..Len(ps) |-> 0],
     pending |-> Len(ps), flag |-> FALSE, returned |-> FALSE]

\* AsyncGenerator<T, R>::State as constructed; nextPromise is the promise
\* held, 0 for std::nullopt.
NewGenerator ==
    [values |-> <<>>, exception |-> <<>>, nextPromise |-> 0,
     returnValue |-> <<>>, finished |-> FALSE]

\* std::optional<T> results: std::make_optional of a queued or fed value,
\* and the empty optional.
Some(q) == Payload(<<q.x>>, q.tok)
None == Payload(<<>>, 0)

\* A generator coroutine not yet called; n counts the values it yielded.
NoProducer == [pc |-> "none", body |-> <<>>, n |-> 0]

\* No Request was made yet: there is no timeout.
NoTimer == [pc |-> "none", value |-> 0]

World(u) ==
    [st |-> st, vst |-> vst, co |-> co, log |-> log, vlog |-> vlog,
     crashed |-> crashed, comb |-> comb, gen |-> gen, producer |-> producer,
     timer |-> timer, ub |-> u]

Commit(w) ==
    /\ st' = w.st
    /\ vst' = w.vst
    /\ co' = w.co
    /\ log' = w.log
    /\ vlog' = w.vlog
    /\ crashed' = w.crashed
    /\ comb' = w.comb
    /\ gen' = w.gen
    /\ producer' = w.producer
    /\ timer' = w.timer

RECURSIVE Resume(_, _)
RECURSIVE Resolve(_, _, _)
RECURSIVE Reject(_, _, _)
RECURSIVE NextAsync(_, _)
RECURSIVE CoAwait(_, _, _)

\* ------------------------------------------------- combinator lambdas
\* A variant of All's Then lambda that fills the vector in arrival order.
AllThen_InArrivalOrder(w, i, val) ==
    IF w.comb.flag
    THEN w
    ELSE LET k == Len(w.comb.ps) - w.comb.pending + 1
             w1 == [w EXCEPT !.comb.values[k] = val.x, !.comb.pending = @ - 1]
         IN  IF w1.comb.pending = 0
             THEN Resolve(w1, Combined, Payload(w1.comb.values, 0))
             ELSE w1

\* The lambdas All registers for position i.
AllThen(w, i, val) ==
    IF w.comb.flag
    THEN w
    ELSE LET w1 == [w EXCEPT !.comb.values[i] = val.x, !.comb.pending = @ - 1]
         IN  IF w1.comb.pending = 0
             THEN Resolve(w1, Combined, Payload(w1.comb.values, 0))
             ELSE w1

\* A variant of All's Catch lambda without the rejected flag.
AllCatch_NoFlag(w, i, msg) ==
    Reject(w, Combined, msg)

AllCatch(w, i, msg) ==
    IF w.comb.flag
    THEN w
    ELSE Reject([w EXCEPT !.comb.flag = TRUE], Combined, msg)

\* A variant of Any's Then lambda without the resolved flag.
AnyThen_NoFlag(w, i, val) ==
    Resolve(w, Combined, val)

\* The lambdas Any registers for position i.
AnyThen(w, i, val) ==
    IF w.comb.flag
    THEN w
    ELSE Resolve([w EXCEPT !.comb.flag = TRUE], Combined, val)

\* The reason Any rejects with.
AllRejected == "All promises rejected"

\* A variant of Any's Catch lambda that gives up on the first rejection.
AnyCatch_OnFirst(w, i, msg) ==
    IF w.comb.flag
    THEN w
    ELSE Reject([w EXCEPT !.comb.pending = @ - 1], Combined, AllRejected)

AnyCatch(w, i, msg) ==
    IF w.comb.flag
    THEN w
    ELSE LET w1 == [w EXCEPT !.comb.pending = @ - 1]
         IN  IF w1.comb.pending = 0
             THEN Reject(w1, Combined, AllRejected)
             ELSE w1

\* A variant of Race's Then lambda without the finished flag.
RaceThen_NoFlag(w, i, val) ==
    Resolve(w, Combined, val)

\* The lambdas Race registers for position i.
RaceThen(w, i, val) ==
    IF w.comb.flag
    THEN w
    ELSE Resolve([w EXCEPT !.comb.flag = TRUE], Combined, val)

\* A variant of Race's Catch lambda without the finished flag.
RaceCatch_NoFlag(w, i, msg) ==
    Reject(w, Combined, msg)

RaceCatch(w, i, msg) ==
    IF w.comb.flag
    THEN w
    ELSE Reject([w EXCEPT !.comb.flag = TRUE], Combined, msg)

\* ------------------------------------------------- callbacks (std::function)
\* A user callback records what it was handed; a combinator's lambda runs.
InvokeThen(w, cb, val) ==
    IF cb <= NumCallbacks
    THEN [w EXCEPT !.log = Append(@, Delivered("then", cb, val))]
    ELSE CASE w.comb.kind = "All" -> AllThen(w, cb - NumCallbacks, val)
           [] w.comb.kind = "Any" -> AnyThen(w, cb - NumCallbacks, val)
           [] OTHER -> RaceThen(w, cb - NumCallbacks, val)

InvokeCatch(w, cb, msg) ==
    IF cb <= NumCallbacks
    THEN [w EXCEPT !.log = Append(@, Raised("catch", cb, msg))]
    ELSE CASE w.comb.kind = "All" -> AllCatch(w, cb - NumCallbacks, msg)
           [] w.comb.kind = "Any" -> AnyCatch(w, cb - NumCallbacks, msg)
           [] OTHER -> RaceCatch(w, cb - NumCallbacks, msg)

VInvokeThen(w, cb) ==
    [w EXCEPT !.vlog = Append(@, Delivered("then", cb, Unit))]

VInvokeCatch(w, cb, msg) ==
    [w EXCEPT !.vlog = Append(@, Raised("catch", cb, msg))]

\* ------------------------------------------------------ awaitable interface
await_ready(s) ==
    s.value # <<>> \/ s.exception # <<>>

await_suspend(w, p, h) ==
    [w EXCEPT !.st[p].callingHandle = h]

\* A variant of await_resume that forgets the stored exception.
await_resume_NoRethrow(w, p) ==
    LET s == w.st[p] IN
    IF s.value # <<>>
    THEN [w |-> [w EXCEPT !.st[p].value = <<>>], raised |-> FALSE, m |-> "",
          val |-> s.value[1]]
    ELSE [w |-> w, raised |-> TRUE, m |-> "bad_optional_access", val |-> Unit]

\* The result of await_resume: rethrow the stored exception, else move the
\* value out of the state (std::exchange with nullopt); value() of an empty
\* optional throws bad_optional_access.
await_resume(w, p) ==
    LET s == w.st[p] IN
    IF s.exception # <<>>
    THEN [w |-> w, raised |-> TRUE, m |-> s.exception[1], val |-> Unit]
    ELSE IF s.value # <<>>
    THEN [w |-> [w EXCEPT !.st[p].value = <<>>], raised |-> FALSE, m |-> "",
          val |-> s.value[1]]
    ELSE [w |-> w, raised |-> TRUE, m |-> "bad_optional_access", val |-> Unit]

v_await_ready(s) ==
    s.resolved \/ s.exception # <<>>

v_await_suspend(w, h) ==
    [w EXCEPT !.vst.callingHandle = h]

v_await_resume(w) ==
    IF w.vst.exception # <<>>
    THEN [w |-> w, raised |-> TRUE, m |-> w.vst.exception[1], val |-> Unit]
    ELSE [w |-> w, raised |-> FALSE, m |-> "", val |-> Unit]

\* ------------------------------------------------------- coroutine frames
\* A variant of return_value that drops the value.
return_value_Dropped(w, p, val) ==
    w

\* promise_type::return_value and promise_type::unhandled_exception settle
\* the state the return object shares.
return_value(w, p, val) ==
    Resolve(w, p, val)

unhandled_exception(w, p, msg) ==
    Reject(w, p, msg)

\* The result a body with no co_await starts from.
NoAwait == [raised |-> FALSE, m |-> "", val |-> Unit]

\* ------------------------------------------------ State::GetReturnValue
\* What GetReturnValue throws.
NotFinished == "Generator has not finished or return value is not set"

\* A variant of GetReturnValue that also wants the queue drained.
GetReturnValue_Drained(w) ==
    IF ~w.gen.finished \/ w.gen.returnValue = <<>> \/ w.gen.values # <<>>
    THEN [w |-> w, threw |-> TRUE, val |-> 0]
    ELSE [w |-> w, threw |-> FALSE, val |-> w.gen.returnValue[1]]

\* A variant of GetReturnValue that only asks for finished.
GetReturnValue_FinishedOnly(w) ==
    IF ~w.gen.finished
    THEN [w |-> w, threw |-> TRUE, val |-> 0]
    ELSE [w |-> w, threw |-> FALSE,
          val |-> IF w.gen.returnValue = <<>> THEN 0 ELSE w.gen.returnValue[1]]

\* State::GetReturnValue for a copyable R: [w, threw, val].
GetReturnValue(w) ==
    IF ~w.gen.finished \/ w.gen.returnValue = <<>>
    THEN [w |-> w, threw |-> TRUE, val |-> 0]
    ELSE [w |-> w, threw |-> FALSE, val |-> w.gen.returnValue[1]]

\* The consumer of TestReturnValueAsync after a co_await of NextAsync: on
\* the empty optional it leaves its loop and calls GetReturnValue, whose
\* result or failure it keeps.
AfterNext(w, c, r) ==
    IF r.raised \/ r.val.x # <<>>
    THEN w
    ELSE LET g == GetReturnValue(w) IN
         [g.w EXCEPT !.co[c].x = g.val,
                     !.co[c].m = IF g.threw THEN NotFinished ELSE ""]

\* A promise no one holds: NextAsync constructs its promise anew, and the
\* state of one that was resolved and read without suspending is as new.
Fresh(w) ==
    LET free == {k \in 1..MaxFetched : /\ w.st[Fetched(k)] = NewState
                                   /\ w.gen.nextPromise # Fetched(k)}
    IN  Fetched(CHOOSE k \in free : \A j \in free : k <= j)

\* The consumer loop of TestGenNumbersAsync from a result r of its
\* co_await on: it records r and evaluates co_await gen.NextAsync() again.
\* After the end or a failure it asks once more and then stops.
LoopAgain(w, c, r) ==
    LET p == Fresh(w)
        last == r.raised \/ r.val.x = <<>>
        w1 == NextAsync(w, p)
    IN  CoAwait([w1 EXCEPT !.co[c].pc = "running", !.co[c].on = p,
                           !.co[c].fin = IF last THEN "log" ELSE "loop"],
                c, p)

\* The code of coroutine c from the result r of its co_await to its end. A
\* test coroutine records what the await gave it. The body of a Promise<T>
\* coroutine reaches its co_return or its throw; an exception raised by its
\* co_await escapes the body as well. final_suspend never suspends, so the
\* frame is gone afterwards.
Body(w, c, r) ==
    LET f == w.co[c]
        got == IF r.raised THEN Raised("await", c, r.m)
               ELSE Delivered("await", c, r.val)
        w1 == [w EXCEPT !.co[c].pc = "done"]
    IN  CASE f.fin = "log" /\ f.cls = "T" ->
                [w1 EXCEPT !.log = Append(@, got)]
          [] f.fin = "log" /\ f.cls = "void" ->
                [w1 EXCEPT !.vlog = Append(@, [got EXCEPT !.id = c - NumAwaiters])]
          [] f.fin = "loop" ->
                LoopAgain([w EXCEPT !.log = Append(@, got)], c, r)
          [] f.fin = "return_value" ->
                AfterNext([w1 EXCEPT !.log = Append(@, got)], c, r)
          [] f.fin = "return" /\ ~r.raised ->
                return_value(w1, f.ret, Payload(f.x, f.tok))
          [] OTHER ->
                unhandled_exception(w1, f.ret, IF r.raised THEN r.m ELSE f.m)

\* Coroutine c runs on from its co_await: await_resume, then the rest.
Continue(w, c) ==
    LET f == w.co[c]
        r == IF f.cls = "T" THEN await_resume(w, f.on) ELSE v_await_resume(w)
    IN  Body(r.w, c, r)

\* std::coroutine_handle<>::resume()
Resume(w, h) ==
    IF w.co[h].pc = "parked"
    THEN Continue(w, h)
    ELSE CASE w.ub = "crash" -> [w EXCEPT !.crashed = TRUE]
           [] w.ub = "rerun" -> Continue(w, h)
           [] OTHER -> w

\* ------------------------------------------------------ Promise<T>::State
\* A variant of Resolve that never looks at callingHandle.
Resolve_NoResume(w, p, val) ==
    LET w1 == [w EXCEPT !.st[p].value = <<val>>]
        s == w1.st[p]
    IN  IF s.thenCallback # 0
        THEN InvokeThen([w1 EXCEPT !.st[p].value = <<>>], s.thenCallback, val)
        ELSE w1

Resolve(w, p, val) ==
    LET w1 == [w EXCEPT !.st[p].value = <<val>>]
        s == w1.st[p]
    IN  IF s.callingHandle # 0
        THEN Resume(w1, s.callingHandle)
        ELSE IF s.thenCallback # 0
        THEN InvokeThen([w1 EXCEPT !.st[p].value = <<>>], s.thenCallback, val)
        ELSE w1

\* A variant of Reject that looks at catchCallback before callingHandle.
Reject_CallbackFirst(w, p, msg) ==
    LET w1 == [w EXCEPT !.st[p].exception = <<msg>>]
        s == w1.st[p]
    IN  IF s.catchCallback # 0
        THEN InvokeCatch(w1, s.catchCallback, msg)
        ELSE IF s.callingHandle # 0
        THEN Resume(w1, s.callingHandle)
        ELSE w1

Reject(w, p, msg) ==
    LET w1 == [w EXCEPT !.st[p].exception = <<msg>>]
        s == w1.st[p]
    IN  IF s.callingHandle # 0
        THEN Resume(w1, s.callingHandle)
        ELSE IF s.catchCallback # 0
        THEN InvokeCatch(w1, s.catchCallback, msg)
        ELSE w1

\* A variant of Then that leaves the value it hands over in the state.
Then_KeepValue(w, p, cb) ==
    LET s == w.st[p]
        w1 == [w EXCEPT !.st[p].thenCallback = cb]
    IN  IF s.callingHandle # 0
        THEN [w |-> w, threw |-> TRUE]
        ELSE IF s.value # <<>>
        THEN [w |-> InvokeThen(w1, cb, s.value[1]), threw |-> FALSE]
        ELSE [w |-> w1, threw |-> FALSE]

\* A variant of Then that only stores the callback.
Then_RegisterOnly(w, p, cb) ==
    LET s == w.st[p]
        w1 == [w EXCEPT !.st[p].thenCallback = cb]
    IN  IF s.callingHandle # 0
        THEN [w |-> w, threw |-> TRUE]
        ELSE [w |-> w1, threw |-> FALSE]

\* Promise<T>::Then / Catch: [w, threw].
Then(w, p, cb) ==
    LET s == w.st[p]
        w1 == [w EXCEPT !.st[p].thenCallback = cb]
    IN  IF s.callingHandle # 0
        THEN [w |-> w, threw |-> TRUE]
        ELSE IF s.value # <<>>
        THEN [w |-> InvokeThen([w1 EXCEPT !.st[p].value = <<>>], cb, s.value[1]),
              threw |-> FALSE]
        ELSE [w |-> w1, threw |-> FALSE]

\* A variant of Catch that stores the callback before it checks for an
\* awaiter.
Catch_RegisterFirst(w, p, cb) ==
    LET s == w.st[p]
        w1 == [w EXCEPT !.st[p].catchCallback = cb]
    IN  IF s.callingHandle # 0
        THEN [w |-> w1, threw |-> TRUE]
        ELSE IF s.exception # <<>>
        THEN [w |-> InvokeCatch(w1, cb, s.exception[1]), threw |-> FALSE]
        ELSE [w |-> w1, threw |-> FALSE]

\* A variant of Catch that only stores the callback.
Catch_RegisterOnly(w, p, cb) ==
    LET s == w.st[p]
        w1 == [w EXCEPT !.st[p].catchCallback = cb]
    IN  IF s.callingHandle # 0
        THEN [w |-> w, threw |-> TRUE]
        ELSE [w |-> w1, threw |-> FALSE]

Catch(w, p, cb) ==
    LET s == w.st[p]
        w1 == [w EXCEPT !.st[p].catchCallback = cb]
    IN  IF s.callingHandle # 0
        THEN [w |-> w, threw |-> TRUE]
        ELSE IF s.exception # <<>>
        THEN [w |-> InvokeCatch(w1, cb, s.exception[1]), threw |-> FALSE]
        ELSE [w |-> w1, threw |-> FALSE]

\* co_await p in coroutine c: await_ready, then await_resume at once or
\* await_suspend.
CoAwait(w, c, p) ==
    IF await_ready(w.st[p])
    THEN Continue(w, c)
    ELSE await_suspend([w EXCEPT !.co[c].pc = "parked"], p, c)

\* ------------------------------------------------- Promise<T>::All / Any / Race
\* The for loop of a combinator from position i on: Then, then Catch, on
\* each promise of the vector in turn. A throw by either leaves the loop.
RECURSIVE Register(_, _, _)
Register(w, ps, i) ==
    IF i > Len(ps)
    THEN [w |-> [w EXCEPT !.comb.returned = TRUE], threw |-> FALSE]
    ELSE LET t == Then(w, ps[i], Lambda(i)) IN
         IF t.threw
         THEN t
         ELSE LET c == Catch(t.w, ps[i], Lambda(i)) IN
              IF c.threw THEN c ELSE Register(c.w, ps, i + 1)

\* A variant of All without the check of the vector.
All_NoEmptyCheck(w, ps) ==
    Register([w EXCEPT !.comb = NewResult("All", ps)], ps, 1)

\* Promise<T>::All(promises); threw stands for std::invalid_argument or for
\* the std::runtime_error of Then / Catch.
All(w, ps) ==
    IF ps = <<>>
    THEN [w |-> w, threw |-> TRUE]
    ELSE Register([w EXCEPT !.comb = NewResult("All", ps)], ps, 1)

\* Promise<T>::Any (the name Any is taken by the TLC module).
PromiseAny(w, ps) ==
    IF ps = <<>>
    THEN [w |-> w, threw |-> TRUE]
    ELSE Register([w EXCEPT !.comb = NewResult("Any", ps)], ps, 1)

Race(w, ps) ==
    IF ps = <<>>
    THEN [w |-> w, threw |-> TRUE]
    ELSE Register([w EXCEPT !.comb = NewResult("Race", ps)], ps, 1)

\* ------------------------------------------------ AsyncGenerator<T, R>::State
\* The reason of the promise a second NextAsync returns.
Overlapping == "Overlapping Next calls are not allowed"

\* A variant of NextAsync in which a second call takes the waiter's place.
NextAsync_Replace(w, p) ==
    LET g == w.gen IN
    IF g.values # <<>>
    THEN Resolve([w EXCEPT !.gen.values = Tail(@)], p, Some(Head(g.values)))
    ELSE IF g.exception # <<>>
    THEN [Reject(w, p, g.exception[1]) EXCEPT !.gen.exception = <<>>]
    ELSE IF g.finished
    THEN Resolve(w, p, None)
    ELSE [w EXCEPT !.gen.nextPromise = p]

\* State::NextAsync, p being the promise it constructs and returns.
\* A variant of NextAsync that does not look at finished.
NextAsync_FinishedWaits(w, p) ==
    LET g == w.gen IN
    IF g.values # <<>>
    THEN Resolve([w EXCEPT !.gen.values = Tail(@)], p, Some(Head(g.values)))
    ELSE IF g.exception # <<>>
    THEN [Reject(w, p, g.exception[1]) EXCEPT !.gen.exception = <<>>]
    ELSE IF g.nextPromise # 0
    THEN Reject(w, p, Overlapping)
    ELSE [w EXCEPT !.gen.nextPromise = p]

\* A variant of NextAsync that reports the held failure and the end before
\* it serves queued values.
NextAsync_TerminalFirst(w, p) ==
    LET g == w.gen IN
    IF g.exception # <<>>
    THEN [Reject(w, p, g.exception[1]) EXCEPT !.gen.exception = <<>>]
    ELSE IF g.finished
    THEN Resolve(w, p, None)
    ELSE IF g.values # <<>>
    THEN Resolve([w EXCEPT !.gen.values = Tail(@)], p, Some(Head(g.values)))
    ELSE IF g.nextPromise # 0
    THEN Reject(w, p, Overlapping)
    ELSE [w EXCEPT !.gen.nextPromise = p]

NextAsync(w, p) ==
    LET g == w.gen IN
    IF g.values # <<>>
    THEN Resolve([w EXCEPT !.gen.values = Tail(@)], p, Some(Head(g.values)))
    ELSE IF g.exception # <<>>
    THEN [Reject(w, p, g.exception[1]) EXCEPT !.gen.exception = <<>>]
    ELSE IF g.finished
    THEN Resolve(w, p, None)
    ELSE IF g.nextPromise # 0
    THEN Reject(w, p, Overlapping)
    ELSE [w EXCEPT !.gen.nextPromise = p]

\* A variant of Feed that queues at the front.
Feed_PushFront(w, q) ==
    IF w.gen.nextPromise # 0
    THEN Resolve([w EXCEPT !.gen.nextPromise = 0], w.gen.nextPromise, Some(q))
    ELSE [w EXCEPT !.gen.values = <<q>> \o @]

\* State::Feed
\* A variant of Feed that resets nextPromise after it resolved the promise.
Feed_ResetAfter(w, q) ==
    IF w.gen.nextPromise # 0
    THEN [Resolve(w, w.gen.nextPromise, Some(q)) EXCEPT !.gen.nextPromise = 0]
    ELSE [w EXCEPT !.gen.values = Append(@, q)]

\* A variant of Feed that queues the value it hands to the waiter as well.
Feed_AlsoQueue(w, q) ==
    IF w.gen.nextPromise # 0
    THEN Resolve([w EXCEPT !.gen.nextPromise = 0,
                           !.gen.values = Append(@, q)],
                 w.gen.nextPromise, Some(q))
    ELSE [w EXCEPT !.gen.values = Append(@, q)]

Feed(w, q) ==
    IF w.gen.nextPromise # 0
    THEN Resolve([w EXCEPT !.gen.nextPromise = 0], w.gen.nextPromise, Some(q))
    ELSE [w EXCEPT !.gen.values = Append(@, q)]

\* A variant of Finish that stores the return value last.
Finish_StoreLast(w, r) ==
    LET w1 == [w EXCEPT !.gen.finished = TRUE]
        w2 == IF w.gen.nextPromise # 0
              THEN Resolve([w1 EXCEPT !.gen.nextPromise = 0],
                           w.gen.nextPromise, None)
              ELSE w1
    IN  [w2 EXCEPT !.gen.returnValue = <<r>>]

\* A variant of Finish that leaves the waiter where it is.
Finish_KeepWaiter(w, r) ==
    [w EXCEPT !.gen.finished = TRUE, !.gen.returnValue = <<r>>]

\* State::Finish
Finish(w, r) ==
    LET w1 == [w EXCEPT !.gen.finished = TRUE, !.gen.returnValue = <<r>>] IN
    IF w.gen.nextPromise # 0
    THEN Resolve([w1 EXCEPT !.gen.nextPromise = 0], w.gen.nextPromise, None)
    ELSE w1

\* A variant of the generator's Reject that stores the exception even when
\* it hands it to the waiter.
GeneratorReject_AlwaysStore(w, msg) ==
    LET w1 == [w EXCEPT !.gen.finished = TRUE, !.gen.exception = <<msg>>] IN
    IF w.gen.nextPromise # 0
    THEN Reject([w1 EXCEPT !.gen.nextPromise = 0], w.gen.nextPromise, msg)
    ELSE w1

\* State::Reject (Reject is taken by Promise<T>::State::Reject).
GeneratorReject(w, msg) ==
    LET w1 == [w EXCEPT !.gen.finished = TRUE] IN
    IF w.gen.nextPromise # 0
    THEN Reject([w1 EXCEPT !.gen.nextPromise = 0], w.gen.nextPromise, msg)
    ELSE [w1 EXCEPT !.gen.exception = <<msg>>]

\* ------------------------------------- AsyncGenerator<T, void> coroutines
\* AsyncGenerator<T, void>::State::Finish
FinishVoid(w) ==
    LET w1 == [w EXCEPT !.gen.finished = TRUE] IN
    IF w.gen.nextPromise # 0
    THEN Resolve([w1 EXCEPT !.gen.nextPromise = 0], w.gen.nextPromise, None)
    ELSE w1

\* promise_type::yield_value of the n-th value, as GenNumbersAsync yields.
gen_yield_value(w) ==
    LET n == w.producer.n + 1 IN
    Feed([w EXCEPT !.producer.n = n], Payload(n, n))

\* promise_type::unhandled_exception
gen_unhandled_exception(w, msg) == GeneratorReject(w, msg)

\* A variant of final_suspend that does not finish the generator.
gen_final_suspend_NoFinish(w) ==
    [w EXCEPT !.producer.pc = "done"]

\* promise_type::final_suspend of AsyncGenerator<T, void>; return_void
\* before it does nothing.
gen_final_suspend(w) ==
    FinishVoid([w EXCEPT !.producer.pc = "done"])

\* The statements a generator body is made of, and what GenExceptionAsync
\* throws.
Statements == {"yield", "await", "throw"}
Thrown == "Test exception"

\* The generator coroutine runs from where it is to its next
\* co_await DelayAsync, where it suspends, or through its end or its throw
\* and final_suspend.
RECURSIVE RunProducer(_)
RunProducer(w) ==
    LET b == w.producer.body
        w1 == [w EXCEPT !.producer.body = Tail(b)]
    IN  IF b = <<>>
        THEN gen_final_suspend(w)
        ELSE CASE Head(b) = "yield" -> RunProducer(gen_yield_value(w1))
               [] Head(b) = "await" -> [w1 EXCEPT !.producer.pc = "suspended"]
               [] OTHER -> gen_final_suspend(gen_unhandled_exception(
                              [w EXCEPT !.producer.body = <<>>], Thrown))

\* ---------------------------------------------------- Promise<void>::State
VResolve(w) ==
    LET w1 == [w EXCEPT !.vst.resolved = TRUE]
        s == w1.vst
    IN  IF s.callingHandle # 0
        THEN Resume(w1, s.callingHandle)
        ELSE IF s.thenCallback # 0
        THEN VInvokeThen(w1, s.thenCallback)
        ELSE w1

VReject(w, msg) ==
    LET w1 == [w EXCEPT !.vst.exception = <<msg>>]
        s == w1.vst
    IN  IF s.callingHandle # 0
        THEN Resume(w1, s.callingHandle)
        ELSE IF s.catchCallback # 0
        THEN VInvokeCatch(w1, s.catchCallback, msg)
        ELSE w1

VThen(w, cb) ==
    LET s == w.vst
        w1 == [w EXCEPT !.vst.thenCallback = cb]
    IN  IF s.callingHandle # 0
        THEN [w |-> w, threw |-> TRUE]
        ELSE IF s.resolved
        THEN [w |-> VInvokeThen(w1, cb), threw |-> FALSE]
        ELSE [w |-> w1, threw |-> FALSE]

VCatch(w, cb) ==
    LET s == w.vst
        w1 == [w EXCEPT !.vst.catchCallback = cb]
    IN  IF s.callingHandle # 0
        THEN [w |-> w, threw |-> TRUE]
        ELSE IF s.exception # <<>>
        THEN [w |-> VInvokeCatch(w1, cb, s.exception[1]), threw |-> FALSE]
        ELSE [w |-> w1, threw |-> FALSE]

VCoAwait(w, c) ==
    IF v_await_ready(w.vst)
    THEN Continue(w, c)
    ELSE v_await_suspend([w EXCEPT !.co[c].pc = "parked"], c)

\* ------------------------------------------------------------------ state
Init ==
    /\ st = [p \in PromiseIds |-> NewState]
    /\ vst = NewVoidState
    /\ co = [c \in CoIds |-> NewFrame]
    /\ log = <<>>
    /\ vlog = <<>>
    /\ hist = <<>>
    /\ crashed = FALSE
    /\ comb = NoResult
    /\ gen = NewGenerator
    /\ producer = NoProducer
    /\ timer = NoTimer

CanCall ==
    ~crashed /\ Len(hist) < MaxOps

Record(op, p, x, m, threw) ==
    hist' = Append(hist, Call(op, p, x, m, threw))

\* ------------------------------------------- calls on the direct Promise<T>
\* promise.Resolve(v) by the owner (a timer callback in the tests).
DoResolve(p, v) ==
    /\ CanCall
    /\ \E u \in UBOutcomes :
          Commit(Resolve(World(u), p, Payload(v, Len(hist) + 1)))
    /\ Record("Resolve", p, v, "", FALSE)

\* promise.Reject(reason)
DoReject(p, msg) ==
    /\ CanCall
    /\ \E u \in UBOutcomes : Commit(Reject(World(u), p, msg))
    /\ Record("Reject", p, 0, msg, FALSE)

\* promise.Then(cb)
DoThen(p, cb) ==
    /\ CanCall
    /\ LET r == Then(World("ignored"), p, cb) IN
          /\ Commit(r.w)
          /\ Record("Then", p, cb, "", r.threw)

\* promise.Catch(cb)
DoCatch(p, cb) ==
    /\ CanCall
    /\ LET r == Catch(World("ignored"), p, cb) IN
          /\ Commit(r.w)
          /\ Record("Catch", p, cb, "", r.threw)

\* A test coroutine a reaches its co_await of promise p.
DoAwait(a, p) ==
    /\ CanCall
    /\ co[a].pc = "idle"
    /\ Commit(CoAwait([World("ignored") EXCEPT
                          !.co[a] = [NewFrame EXCEPT !.on = p]], a, p))
    /\ Record("Await", p, a, "", FALSE)

Next ==
    \/ \E v \in Values : DoResolve(Direct, v)
    \/ \E m \in Reasons : DoReject(Direct, m)
    \/ \E cb \in Callbacks : DoThen(Direct, cb)
    \/ \E cb \in Callbacks : DoCatch(Direct, cb)
    \/ \E a \in Awaiters : DoAwait(a, Direct)

Spec == Init /\ [][Next]_vars

\* ------------------------------- the same calls on Promise<T> and Promise<void>
\* Each call is made on the direct Promise<T> and on a Promise<void> built
\* and driven the same way; test coroutine a awaits the first, its
\* counterpart VoidAwaiter(a) the second.
BothResolve(v) ==
    /\ CanCall
    /\ \E u \in UBOutcomes :
          Commit(VResolve(Resolve(World(u), Direct, Payload(v, Len(hist) + 1))))
    /\ Record("Resolve", Direct, v, "", FALSE)

BothReject(msg) ==
    /\ CanCall
    /\ \E u \in UBOutcomes : Commit(VReject(Reject(World(u), Direct, msg), msg))
    /\ Record("Reject", Direct, 0, msg, FALSE)

BothThen(cb) ==
    /\ CanCall
    /\ LET r == Then(World("ignored"), Direct, cb)
           vr == VThen(r.w, cb)
       IN  /\ Commit(vr.w)
           /\ Record("Then", Direct, cb, "", r.threw)

BothCatch(cb) ==
    /\ CanCall
    /\ LET r == Catch(World("ignored"), Direct, cb)
           vr == VCatch(r.w, cb)
       IN  /\ Commit(vr.w)
           /\ Record("Catch", Direct, cb, "", r.threw)

BothAwait(a) ==
    /\ CanCall
    /\ co[a].pc = "idle"
    /\ LET w0 == [World("ignored") EXCEPT
                     !.co[a] = [NewFrame EXCEPT !.on = Direct],
                     !.co[VoidAwaiter(a)] = [NewFrame EXCEPT !.cls = "void"]]
       IN  Commit(VCoAwait(CoAwait(w0, a, Direct), VoidAwaiter(a)))
    /\ Record("Await", Direct, a, "", FALSE)

NextVoid ==
    \/ \E v \in Values : BothResolve(v)
    \/ \E m \in Reasons : BothReject(m)
    \/ \E cb \in Callbacks : BothThen(cb)
    \/ \E cb \in Callbacks : BothCatch(cb)
    \/ \E a \in Awaiters : BothAwait(a)

SpecVoid == Init /\ [][NextVoid]_vars

\* ------------------------------------------- a coroutine returning Promise<T>
\* A caller calls a coroutine whose body is
\*     [co_await direct;]  co_return x;      (fin = "return")
\*     [co_await direct;]  throw reason;     (fin = "throw")
\* promise_type makes the state, get_return_object shares it with the
\* return object, initial_suspend does not suspend: the body runs inside
\* the call until it parks or ends.
CallCoroutine(fin, awaits, x, msg) ==
    /\ CanCall
    /\ co[BodyCo].pc = "idle"
    /\ LET f == [NewFrame EXCEPT !.on = IF awaits THEN Direct ELSE 0,
                                 !.ret = Returned, !.fin = fin, !.x = x,
                                 !.tok = Len(hist) + 1, !.m = msg]
           w == [World("ignored") EXCEPT !.co[BodyCo] = f]
       IN  Commit(IF awaits THEN CoAwait(w, BodyCo, Direct)
                  ELSE Body(w, BodyCo, NoAwait))
    /\ Record("Call", Returned, x, msg, FALSE)

\* What the caller does with the return object it was handed.
CallerAwait(a) ==
    /\ co[BodyCo].pc # "idle"
    /\ DoAwait(a, Returned)

CallerThen(cb) ==
    /\ co[BodyCo].pc # "idle"
    /\ DoThen(Returned, cb)

CallerCatch(cb) ==
    /\ co[BodyCo].pc # "idle"
    /\ DoCatch(Returned, cb)

NextCoroutine ==
    \/ \E v \in Values, awaits \in BOOLEAN : CallCoroutine("return", awaits, v, "")
    \/ \E m \in Reasons, awaits \in BOOLEAN : CallCoroutine("throw", awaits, 0, m)
    \/ \E v \in Values : DoResolve(Direct, v)
    \/ \E m \in Reasons : DoReject(Direct, m)
    \/ \E a \in Awaiters : CallerAwait(a)
    \/ \E cb \in Callbacks : CallerThen(cb)
    \/ \E cb \in Callbacks : CallerCatch(cb)

SpecCoroutine == Init /\ [][NextCoroutine]_vars

\* ------------------------------------------------------- the combinator tests
\* The vectors a test hands to a combinator: the input promises in order,
\* any leading part of them (the empty one included), or all in reverse.
RECURSIVE Reversed(_)
Reversed(q) ==
    IF q = <<>> THEN <<>> ELSE Append(Reversed(Tail(q)), Head(q))

Vectors ==
    {[i \in 1..n |-> i] : n \in 0..NumInputs}
        \cup {Reversed([i \in 1..NumInputs |-> i])}

\* Each promise of a test carries its own number as value and in its reason.
InputValue(p) == p
InputReason(p) == "Error in promise " \o ToString(p)

\* auto promise = Promise<int>::All(promises), and likewise Any and Race.
CallAll(ps) ==
    /\ CanCall
    /\ comb.kind = "none"
    /\ LET r == All(World("ignored"), ps) IN
          /\ Commit(r.w)
          /\ Record("All", Combined, Len(ps), "", r.threw)

CallAny(ps) ==
    /\ CanCall
    /\ comb.kind = "none"
    /\ LET r == PromiseAny(World("ignored"), ps) IN
          /\ Commit(r.w)
          /\ Record("Any", Combined, Len(ps), "", r.threw)

CallRace(ps) ==
    /\ CanCall
    /\ comb.kind = "none"
    /\ LET r == Race(World("ignored"), ps) IN
          /\ Commit(r.w)
          /\ Record("Race", Combined, Len(ps), "", r.threw)

\* The test coroutine reaches co_await promise on the combinator's result.
AwaitCombined ==
    /\ comb.returned
    /\ DoAwait(1, Combined)

NextCombinators ==
    \/ \E p \in Inputs : DoResolve(p, InputValue(p))
    \/ \E p \in Inputs : DoReject(p, InputReason(p))
    \/ \E ps \in Vectors : CallAll(ps)
    \/ \E ps \in Vectors : CallAny(ps)
    \/ \E ps \in Vectors : CallRace(ps)
    \/ AwaitCombined

SpecCombinators == Init /\ [][NextCombinators]_vars

\* A test coroutine reaches co_await on input p of a later combinator call.
AwaitInput(p) ==
    /\ comb.kind = "none"
    /\ DoAwait(NumAwaiters, p)

NextAwaitedInputs ==
    \/ \E p \in Inputs : DoResolve(p, InputValue(p))
    \/ \E p \in Inputs : DoReject(p, InputReason(p))
    \/ \E p \in Inputs : AwaitInput(p)
    \/ \E ps \in Vectors : CallAll(ps)
    \/ \E ps \in Vectors : CallAny(ps)
    \/ \E ps \in Vectors : CallRace(ps)

SpecAwaitedInputs == Init /\ [][NextAwaitedInputs]_vars

\* ------------------------------------------------------ the generator's users
\* Consumer c, not waiting on an earlier call, runs
\* co_await gen.NextAsync(); the promise is the next fresh one.
NextBy(c, fin) ==
    /\ CanCall
    /\ co[c].pc # "parked"
    /\ LET p == Fetched(Cardinality({i \in 1..Len(hist) : hist[i].op = "Next"}) + 1)
           w1 == NextAsync(World("ignored"), p)
       IN  /\ Commit(CoAwait([w1 EXCEPT !.co[c] =
                                 [NewFrame EXCEPT !.on = p, !.fin = fin]],
                             c, p))
           /\ Record("Next", p, c, "", FALSE)

\* The consumer only records what it got, or does as TestReturnValueAsync.
ConsumerNext(c) ==
    \E fin \in {"log", "return_value"} : NextBy(c, fin)

\* auto returnValue = gen.GetReturnValue(), outside any consumer loop.
CallGetReturnValue ==
    /\ CanCall
    /\ LET g == GetReturnValue(World("ignored")) IN
          /\ Commit(g.w)
          /\ Record("GetReturnValue", 0, g.val, "", g.threw)

\* gen.Feed(v)
ProducerFeed(v) ==
    /\ CanCall
    /\ \E u \in UBOutcomes : Commit(Feed(World(u), Payload(v, Len(hist) + 1)))
    /\ Record("Feed", 0, v, "", FALSE)

\* gen.Finish(r)
ProducerFinish(r) ==
    /\ CanCall
    /\ \E u \in UBOutcomes : Commit(Finish(World(u), r))
    /\ Record("Finish", 0, r, "", FALSE)

\* gen.Reject(reason)
ProducerReject(msg) ==
    /\ CanCall
    /\ \E u \in UBOutcomes : Commit(GeneratorReject(World(u), msg))
    /\ Record("GeneratorReject", 0, 0, msg, FALSE)

NextGenerator ==
    \/ \E c \in Awaiters : ConsumerNext(c)
    \/ \E v \in Values : ProducerFeed(v)
    \/ \E r \in Values : ProducerFinish(r)
    \/ \E m \in Reasons : ProducerReject(m)
    \/ CallGetReturnValue

SpecGenerator == Init /\ [][NextGenerator]_vars

\* The stream alone: consumers that record what co_await gen.NextAsync()
\* gave them, and the producer's calls.
NextStream ==
    \/ \E c \in Awaiters : NextBy(c, "log")
    \/ \E v \in Values : ProducerFeed(v)
    \/ \E r \in Values : ProducerFinish(r)
    \/ \E m \in Reasons : ProducerReject(m)

SpecStream == Init /\ [][NextStream]_vars

\* ------------------------------------------------ a generator coroutine
\* The bodies a generator coroutine can have: up to MaxBody statements,
\* nothing after a throw.
Bodies ==
    {b \in UNION {[1..n -> Statements] : n \in 0..MaxBody} :
        \A i \in 1..Len(b) : b[i] = "throw" => i = Len(b)}

\* auto gen = GenNumbersAsync(...): the coroutine is called and runs to its
\* first suspension or to its end.
StartProducer(b) ==
    /\ CanCall
    /\ producer.pc = "none"
    /\ \E u \in UBOutcomes :
          Commit(RunProducer([World(u) EXCEPT
                     !.producer = [pc |-> "running", body |-> b, n |-> 0]]))
    /\ Record("Start", 0, Len(b), "", FALSE)

\* The timer of DelayAsync fires and resolves the promise the generator
\* coroutine is suspended on, which resumes it.
TimerFires ==
    /\ CanCall
    /\ producer.pc = "suspended"
    /\ \E u \in UBOutcomes :
          Commit(RunProducer([World(u) EXCEPT !.producer.pc = "running"]))
    /\ Record("Timer", 0, 0, "", FALSE)

\* A test coroutine's co_await gen.NextAsync() on the returned generator.
NextOfProducer(c) ==
    /\ producer.pc # "none"
    /\ NextBy(c, "log")

NextProducer ==
    \/ \E b \in Bodies : StartProducer(b)
    \/ TimerFires
    \/ \E c \in Awaiters : NextOfProducer(c)

SpecProducer == Init /\ [][NextProducer]_vars

\* ------------------------------------------------- the consumer loop
\* A test coroutine enters the while loop of TestGenNumbersAsync: its
\* first co_await gen.NextAsync().
LoopNext(c) ==
    /\ CanCall
    /\ co[c].pc = "idle"
    /\ LET w == World("ignored")
           p == Fresh(w)
       IN  /\ Commit(CoAwait([NextAsync(w, p) EXCEPT !.co[c] =
                                 [NewFrame EXCEPT !.on = p, !.fin = "loop"]],
                             c, p))
           /\ Record("Next", p, c, "", FALSE)

NextLoop ==
    \/ \E c \in Awaiters : LoopNext(c)
    \/ \E v \in Values : ProducerFeed(v)
    \/ \E r \in Values : ProducerFinish(r)
    \/ \E m \in Reasons : ProducerReject(m)

SpecLoop == Init /\ [][NextLoop]_vars

\* ------------------------------------------------------------ Request<T>
\* The wrapper of TestEncapsulatedPromise.cpp around the promise Direct.
Cancelled == "cancelled_exception"

\* tev.ClearTimeout(handle): a timeout that has not fired will not fire.
ClearTimeout(w) ==
    IF w.timer.pc = "armed" THEN [w EXCEPT !.timer.pc = "cleared"] ELSE w

\* Request<T>::Cancel()
Cancel(w) ==
    LET w1 == ClearTimeout(w) IN
    IF ~await_ready(w1.st[Direct])
    THEN Reject(w1, Direct, Cancelled)
    ELSE w1

\* Request<T>::MakeRequestAsync(tev, ms, value)
MakeRequestAsync(v) ==
    /\ timer.pc = "none"
    /\ Commit([World("ignored") EXCEPT !.timer = [pc |-> "armed", value |-> v]])
    /\ Record("MakeRequest", Direct, v, "", FALSE)

\* MaxOps calls follow the making of the request.
CanCallRequest ==
    ~crashed /\ timer.pc # "none" /\ Len(hist) <= MaxOps

\* The timeout of the request fires: promise.Resolve(value).
RequestTimeout ==
    /\ CanCallRequest
    /\ timer.pc = "armed"
    /\ \E u \in UBOutcomes :
          Commit(Resolve([World(u) EXCEPT !.timer.pc = "fired"], Direct,
                         Payload(timer.value, Len(hist) + 1)))
    /\ Record("Timeout", Direct, timer.value, "", FALSE)

\* co_await request in test coroutine a: await_ready, await_suspend and
\* await_resume of the wrapper forward to the promise.
AwaitRequest(a) ==
    /\ CanCallRequest
    /\ co[a].pc = "idle"
    /\ Commit(CoAwait([World("ignored") EXCEPT
                          !.co[a] = [NewFrame EXCEPT !.on = Direct]], a, Direct))
    /\ Record("Await", Direct, a, "", FALSE)

\* request.Cancel() by whoever holds a copy of the request.
CallCancel ==
    /\ CanCallRequest
    /\ \E u \in UBOutcomes : Commit(Cancel(World(u)))
    /\ Record("Cancel", Direct, 0, "", FALSE)

NextRequest ==
    \/ \E v \in Values : MakeRequestAsync(v)
    \/ RequestTimeout
    \/ \E a \in Awaiters : AwaitRequest(a)
    \/ CallCancel

SpecRequest == Init /\ [][NextRequest]_vars

\* --------------------------------------------------- reading the history
Ops(S) == {i \in 1..Len(hist) : hist[i].op \in S}

OnlyOps(S) == Ops(S) = 1..Len(hist)

ValueDeliveries == {i \in 1..Len(log) : log[i].kind = "value"}

ErrorDeliveries == {i \in 1..Len(log) : log[i].kind = "error"}

\* The step just taken is the call op (every call appends to hist).
Stepped(op) ==
    /\ Len(hist') = Len(hist) + 1
    /\ hist'[Len(hist')].op = op

D == st[Direct]

\* ------------------------------------------------------------------ C1
\* C1: after the first Resolve or Reject on a promise, every later Resolve
\* or Reject is a no-op: the promise state, the coroutine frames and the
\* deliveries made are all left as they were.
C1_LaterSettleIsNoOp ==
    [][(Ops({"Resolve", "Reject"}) # {} /\ (Stepped("Resolve") \/ Stepped("Reject")))
          => (st' = st /\ co' = co /\ log' = log)]_vars

\* ------------------------------------------------------------------ C2
\* C2: a fresh promise with one awaiter and no callbacks, resolved once
\* with v before or after the awaiter parked: the awaiter is parked with
\* nothing delivered until the Resolve, and then its await returns exactly
\* the payload of that Resolve, once, and the coroutine has run on.
C2_AwaitReturnsResolved ==
    (OnlyOps({"Resolve", "Await"})
        /\ Cardinality(Ops({"Resolve"})) <= 1
        /\ Cardinality(Ops({"Await"})) = 1)
    => LET a == hist[CHOOSE i \in Ops({"Await"}) : TRUE].x IN
       IF Ops({"Resolve"}) = {}
       THEN log = <<>> /\ co[a].pc = "parked" /\ D.callingHandle = a
       ELSE LET i == CHOOSE i \in Ops({"Resolve"}) : TRUE IN
            /\ log = <<Delivered("await", a, Payload(hist[i].x, i))>>
            /\ co[a].pc = "done"
            /\ ~crashed

\* The awaiter parked first and was resumed by the Resolve.
C2_Witness ==
    /\ Len(hist) = 2
    /\ hist[1].op = "Await"
    /\ hist[2].op = "Resolve"
    /\ Len(log) = 1
    /\ log[1].to = "await"
    /\ log[1].x = hist[2].x

\* ------------------------------------------------------------------ C3
\* C3: a fresh promise with one awaiter and no callbacks, rejected once
\* with reason e before or after the awaiter parked: the await raises a
\* failure carrying e and never returns a value.
C3_AwaitRaisesRejected ==
    (OnlyOps({"Reject", "Await"})
        /\ Cardinality(Ops({"Reject"})) <= 1
        /\ Cardinality(Ops({"Await"})) = 1)
    => LET a == hist[CHOOSE i \in Ops({"Await"}) : TRUE].x IN
       IF Ops({"Reject"}) = {}
       THEN log = <<>> /\ co[a].pc = "parked"
       ELSE LET i == CHOOSE i \in Ops({"Reject"}) : TRUE IN
            /\ log = <<Raised("await", a, hist[i].m)>>
            /\ co[a].pc = "done"
            /\ ~crashed

C3_Witness ==
    /\ Len(hist) = 2
    /\ hist[1].op = "Await"
    /\ hist[2].op = "Reject"
    /\ Len(log) = 1
    /\ log[1].kind = "error"
    /\ log[1].m = hist[2].m

\* ------------------------------------------------------------------ C4
\* C4: over any sequence of Resolve, Then and await, the payload of one
\* Resolve reaches at most one recipient, and a payload that has been
\* handed over is no longer the stored value.
C4_ValueDeliveredOnce ==
    OnlyOps({"Resolve", "Then", "Await"})
    => /\ \A i, j \in ValueDeliveries : log[i].tok = log[j].tok => i = j
       /\ \A i \in ValueDeliveries :
             D.value = <<>> \/ D.value[1].tok # log[i].tok

\* Two payloads were handed over in turn, one to a callback and one to an
\* awaiter.
C4_Witness ==
    /\ OnlyOps({"Resolve", "Then", "Await"})
    /\ Cardinality(Ops({"Resolve"})) = 2
    /\ Cardinality(ValueDeliveries) = 2
    /\ \E i, j \in ValueDeliveries : log[i].to = "then" /\ log[j].to = "await"
    /\ D.value = <<>>

\* ------------------------------------------------------------------ C5
\* C5: over any sequence of Reject, Catch and await, one failure reaches
\* at most one recipient: never an awaiter and a catch callback both, and
\* never two catch callbacks.
C5_FailureDeliveredOnce ==
    (OnlyOps({"Reject", "Catch", "Await"}) /\ Cardinality(Ops({"Reject"})) <= 1)
    => Cardinality(ErrorDeliveries) <= 1

\* ------------------------------------------------------------------ C6
\* C6: in every reachable state at most one of {callingHandle,
\* thenCallback} is set and at most one of {callingHandle, catchCallback}.
C6_ParkedExcludesCallbacks ==
    (OnlyOps({"Then", "Catch", "Await"}) /\ D.callingHandle # 0)
    => (D.thenCallback = 0 /\ D.catchCallback = 0)

\* ------------------------------------------------------------------ C7
\* C7: Then or Catch on a promise with a parked awaiter throws, registers
\* no callback, invokes nothing and leaves the promise as it was; a later
\* settlement still resumes that awaiter with its outcome.
C7_CallbackOnAwaitedFails ==
    [][/\ ((Stepped("Then") \/ Stepped("Catch")) /\ D.callingHandle # 0)
            => (hist'[Len(hist')].threw /\ st' = st /\ co' = co /\ log' = log)
       /\ (Stepped("Resolve") /\ Ops({"Resolve", "Reject"}) = {}
              /\ D.callingHandle # 0 /\ \E i \in Ops({"Then", "Catch"}) : hist[i].threw)
            => (/\ co'[D.callingHandle].pc = "done"
                /\ log' = Append(log, Delivered("await", D.callingHandle,
                                    Payload(hist'[Len(hist')].x, Len(hist'))))
                /\ ~crashed')]_vars

\* Then threw on a parked awaiter, and the next Resolve resumed the awaiter.
C7_Witness ==
    /\ Len(hist) = 3
    /\ hist[1].op = "Await"
    /\ hist[2].op = "Then" /\ hist[2].threw
    /\ hist[3].op = "Resolve"
    /\ log = <<Delivered("await", hist[1].x, Payload(hist[3].x, 3))>>

\* ------------------------------------------------------------------ C8
\* C8: on a promise nobody awaits, Then on a stored value invokes the
\* callback inside the call with exactly that value and consumes it; Catch
\* on a stored failure invokes the callback inside the call with it; on a
\* pending promise neither invokes anything, and a callback is only ever
\* invoked inside a Then/Catch call or a settling call.
C8_ImmediateCallback ==
    [][/\ (Stepped("Then") /\ D.callingHandle = 0)
            => /\ ~hist'[Len(hist')].threw
               /\ IF D.value # <<>>
                  THEN /\ log' = Append(log, Delivered("then", hist'[Len(hist')].x,
                                                       D.value[1]))
                       /\ st'[Direct].value = <<>>
                  ELSE log' = log
       /\ (Stepped("Catch") /\ D.callingHandle = 0)
            => /\ ~hist'[Len(hist')].threw
               /\ IF D.exception # <<>>
                  THEN log' = Append(log, Raised("catch", hist'[Len(hist')].x,
                                                 D.exception[1]))
                  ELSE log' = log
       /\ \A i \in (Len(log) + 1)..Len(log') :
             /\ log'[i].to = "then" => (Stepped("Then") \/ Stepped("Resolve"))
             /\ log'[i].to = "catch" => (Stepped("Catch") \/ Stepped("Reject"))]_vars

\* Then found a stored value and handed it to its callback.
C8_Witness ==
    /\ Len(hist) = 2
    /\ hist[1].op = "Resolve"
    /\ hist[2].op = "Then" /\ ~hist[2].threw
    /\ log = <<Delivered("then", hist[2].x, Payload(hist[1].x, 1))>>
    /\ D.value = <<>>

\* ------------------------------------------------------------------ C9
\* C9: driven by the same calls, Promise<void> behaves as Promise<T>: the
\* same callbacks and awaiters are served at the same steps with the same
\* kind of outcome, the two report ready alike, park alike and refuse
\* Then/Catch alike.
Erased(l) == [i \in 1..Len(l) |-> [l[i] EXCEPT !.x = 0, !.tok = 0]]

C9_VoidBehavesAsTyped ==
    ~crashed
    => /\ vlog = Erased(log)
       /\ v_await_ready(vst) = await_ready(D)
       /\ (vst.callingHandle = 0) = (D.callingHandle = 0)
       /\ \A a \in Awaiters : co[VoidAwaiter(a)].pc = co[a].pc

Combinators == {"All", "Any", "Race"}

\* The calls that settled input p, and the calls before call c that did.
Settles(p) == {i \in Ops({"Resolve", "Reject"}) : hist[i].p = p}

\* Every input has been settled at most once.
SettledOnce == \A p \in Inputs : Cardinality(Settles(p)) <= 1

Resolved(p) == \E i \in Settles(p) : hist[i].op = "Resolve"
Rejected(p) == \E i \in Settles(p) : hist[i].op = "Reject"

\* The combinator call that returned a result, if there is one.
Returns == {c \in Ops(Combinators) : ~hist[c].threw}
TheCall == CHOOSE c \in Returns : TRUE

\* Positions of the vector whose promise was settled before / after the call.
Positions == 1..Len(comb.ps)
Before(i) == \E k \in Settles(comb.ps[i]) : k < TheCall
After(i) == \E k \in Settles(comb.ps[i]) : k > TheCall

\* The order in which the lambdas of a returned combinator ran, for inputs
\* settled once: the loop of the call meets the inputs settled before it
\* by position, and every later settlement runs its lambda as it happens.
Arrival(i) ==
    IF Before(i)
    THEN i
    ELSE Len(comb.ps) + (CHOOSE k \in Settles(comb.ps[i]) : TRUE)

\* The position among S that the combinator met first.
FirstOf(S) == CHOOSE i \in S : \A j \in S : Arrival(i) <= Arrival(j)

ResolvedAt == {i \in Positions : Resolved(comb.ps[i])}
RejectedAt == {i \in Positions : Rejected(comb.ps[i])}

R == st[Combined]

\* ------------------------------------------------------------------ C11
\* C11: All, Any and Race called with an empty vector throw at once: the
\* call returns no result promise, and no promise, coroutine, delivery or
\* combinator bookkeeping is touched by it.
C11_EmptyVectorFails ==
    [][(\E op \in Combinators : Stepped(op)) /\ hist'[Len(hist')].x = 0
        => /\ hist'[Len(hist')].threw
           /\ st' = st /\ co' = co /\ log' = log
           /\ comb' = comb /\ ~comb'.returned
           /\ R = NewState]_vars

\* An empty Race was attempted after an input had already resolved.
C11_Witness ==
    /\ Len(hist) = 2
    /\ hist[1].op = "Resolve"
    /\ hist[2].op = "Race" /\ hist[2].x = 0 /\ hist[2].threw
    /\ comb = NoResult
    /\ R = NewState

\* ------------------------------------------------------------------ C12
\* The value input p was resolved with.
ValueOf(p) == hist[CHOOSE k \in Settles(p) : TRUE].x

\* C12: with every input settled at most once, the result of All holds a
\* value exactly when every promise of the vector has resolved, whether
\* before or after the call and in whatever order; that value is the
\* vector whose position i is the value of input i, and it is held by the
\* result or has been handed to its awaiter, once. Until then the result
\* holds no value and nothing was delivered.
C12_AllResolves ==
    (SettledOnce /\ comb.kind = "All" /\ comb.returned)
    => IF \A i \in Positions : Resolved(comb.ps[i])
       THEN LET r == Payload([i \in Positions |-> ValueOf(comb.ps[i])], 0) IN
            /\ Len(r.x) = Len(comb.ps)
            /\ R.exception = <<>>
            /\ \/ R.value = <<r>> /\ log = <<>>
               \/ R.value = <<>> /\ log = <<Delivered("await", 1, r)>>
       ELSE R.value = <<>> /\ ValueDeliveries = {}

\* The second input resolved before the call and the first after it, with
\* the awaiter parked in between.
C12_Witness ==
    /\ Len(hist) = 4
    /\ hist[1].op = "Resolve" /\ hist[1].p = 2
    /\ hist[2].op = "All" /\ comb.ps = <<1, 2>>
    /\ hist[3].op = "Await"
    /\ hist[4].op = "Resolve" /\ hist[4].p = 1
    /\ log = <<Delivered("await", 1, Payload(<<InputValue(1), InputValue(2)>>, 0))>>

\* ------------------------------------------------------------------ C13
\* C13: with every input settled at most once, the result of All is
\* rejected exactly when an input of the vector has rejected, and the
\* failure it holds carries the message of the first rejection All met.
\* From then on nothing changes it: it never holds or delivers a value,
\* its awaiter is raised to once at most and with that message, and the
\* result vector keeps only the values written before that rejection.
C13_AllRejectsOnFirst ==
    (SettledOnce /\ comb.kind = "All" /\ comb.returned)
    => IF RejectedAt = {}
       THEN R.exception = <<>> /\ ErrorDeliveries = {} /\ ~comb.flag
       ELSE LET f == FirstOf(RejectedAt)
                m == hist[CHOOSE k \in Settles(comb.ps[f]) : TRUE].m
            IN  /\ R.exception = <<m>>
                /\ R.value = <<>> /\ ValueDeliveries = {}
                /\ log \in {<<>>, <<Raised("await", 1, m)>>}
                /\ \A i \in Positions :
                      comb.values[i] =
                          IF i \in ResolvedAt /\ Arrival(i) < Arrival(f)
                          THEN ValueOf(comb.ps[i])
                          ELSE 0

\* The first input rejected into the parked awaiter; the second resolved
\* afterwards and left no trace.
C13_Witness ==
    /\ Len(hist) = 4
    /\ hist[1].op = "All" /\ comb.ps = <<1, 2>>
    /\ hist[2].op = "Await"
    /\ hist[3].op = "Reject" /\ hist[3].p = 1
    /\ hist[4].op = "Resolve" /\ hist[4].p = 2
    /\ log = <<Raised("await", 1, InputReason(1))>>
    /\ comb.values = <<0, 0>>

\* ------------------------------------------------------------------ C14
\* The payload input p was resolved with.
PayloadOf(p) ==
    LET k == CHOOSE k \in Settles(p) : TRUE IN Payload(hist[k].x, k)

\* C14: with every input settled at most once, as soon as an input of the
\* vector has resolved the result of Any holds, or has handed to its
\* awaiter, the value of the input whose resolution Any met first, however
\* many inputs rejected earlier; no later resolution or rejection replaces
\* it, delivers again or rejects the result.
C14_AnyResolvesWithFirst ==
    (SettledOnce /\ comb.kind = "Any" /\ comb.returned /\ ResolvedAt # {})
    => LET v == PayloadOf(comb.ps[FirstOf(ResolvedAt)]) IN
       /\ R.exception = <<>>
       /\ \/ R.value = <<v>> /\ log = <<>>
          \/ R.value = <<>> /\ log = <<Delivered("await", 1, v)>>

\* The first input rejected, the second resolved into the parked awaiter.
C14_Witness ==
    /\ Len(hist) = 4
    /\ hist[1].op = "Any" /\ comb.ps = <<1, 2>>
    /\ hist[2].op = "Reject" /\ hist[2].p = 1
    /\ hist[3].op = "Await"
    /\ hist[4].op = "Resolve" /\ hist[4].p = 2
    /\ log = <<Delivered("await", 1, Payload(InputValue(2), 4))>>

\* ------------------------------------------------------------------ C15
\* C15: with every input settled at most once, the result of Any is
\* rejected exactly when every input of the vector has rejected: while an
\* input is pending or has resolved it holds no failure and raised none.
\* The failure it then holds, and raises to its awaiter once at most, is
\* the fixed reason of Any, which is none of the inputs' reasons.
C15_AnyRejectsWhenAllDid ==
    (SettledOnce /\ comb.kind = "Any" /\ comb.returned)
    => IF RejectedAt = Positions
       THEN /\ R.exception = <<AllRejected>>
            /\ R.value = <<>>
            /\ log \in {<<>>, <<Raised("await", 1, AllRejected)>>}
            /\ \A p \in Inputs : InputReason(p) # AllRejected
       ELSE R.exception = <<>> /\ ErrorDeliveries = {}

\* One input had rejected before the call; the other rejected into the
\* parked awaiter.
C15_Witness ==
    /\ Len(hist) = 4
    /\ hist[1].op = "Reject" /\ hist[1].p = 1
    /\ hist[2].op = "Any" /\ comb.ps = <<1, 2>>
    /\ hist[3].op = "Await"
    /\ hist[4].op = "Reject" /\ hist[4].p = 2
    /\ log = <<Raised("await", 1, AllRejected)>>

\* ------------------------------------------------------------------ C16
SettledAt == ResolvedAt \cup RejectedAt

\* C16: with every input settled at most once, the result of Race is
\* pending while no input of the vector has settled, and from the first
\* settlement Race met it holds that input's outcome and no other: its
\* value, held or handed to the awaiter once, and no failure; or its
\* reason, raised to the awaiter once at most, and no value. Settlements
\* met later leave the result and the deliveries as they were.
C16_RaceSettlesWithFirst ==
    (SettledOnce /\ comb.kind = "Race" /\ comb.returned)
    => IF SettledAt = {}
       THEN R.value = <<>> /\ R.exception = <<>> /\ log = <<>>
       ELSE LET p == comb.ps[FirstOf(SettledAt)] IN
            IF Resolved(p)
            THEN /\ R.exception = <<>>
                 /\ \/ R.value = <<PayloadOf(p)>> /\ log = <<>>
                    \/ R.value = <<>>
                          /\ log = <<Delivered("await", 1, PayloadOf(p))>>
            ELSE /\ R.exception = <<InputReason(p)>>
                 /\ R.value = <<>>
                 /\ log \in {<<>>, <<Raised("await", 1, InputReason(p))>>}

\* The second input rejected into the parked awaiter; the first resolved
\* afterwards and changed nothing.
C16_Witness ==
    /\ Len(hist) = 4
    /\ hist[1].op = "Race" /\ comb.ps = <<1, 2>>
    /\ hist[2].op = "Await"
    /\ hist[3].op = "Reject" /\ hist[3].p = 2
    /\ hist[4].op = "Resolve" /\ hist[4].p = 1
    /\ R.value = <<>>
    /\ log = <<Raised("await", 1, InputReason(2))>>

\* ------------------------------------------------------------------ C17
\* The inputs settled so far fix the outcome of the combinator, and
\* whether that outcome is a value.
Determined ==
    CASE comb.kind = "All" -> ResolvedAt = Positions \/ RejectedAt # {}
      [] comb.kind = "Any" -> ResolvedAt # {} \/ RejectedAt = Positions
      [] OTHER -> SettledAt # {}

DeterminedValue ==
    CASE comb.kind = "All" -> ResolvedAt = Positions
      [] comb.kind = "Any" -> ResolvedAt # {}
      [] OTHER -> Resolved(comb.ps[FirstOf(SettledAt)])

\* C17: when the inputs settled before the call, once each, already fix
\* the outcome (All: all resolved or one rejected; Any: one resolved or
\* all rejected; Race: one settled) and none has settled since, the result
\* is settled that way as the call returns: it holds the value, or the
\* failure, before anything was delivered, and a co_await on it completes
\* without parking and receives it.
C17_SettledAtReturn ==
    (SettledOnce /\ comb.returned /\ Determined
        /\ \A i \in Positions : ~After(i))
    => IF Ops({"Await"}) = {}
       THEN /\ await_ready(R)
            /\ log = <<>>
            /\ (R.value # <<>>) = DeterminedValue
            /\ (R.exception # <<>>) = ~DeterminedValue
       ELSE /\ co[1].pc = "done"
            /\ Len(log) = 1
            /\ (log[1].kind = "value") = DeterminedValue

\* Both inputs had settled before Race was called on them, and the await
\* that followed returned the value at once.
C17_Witness ==
    /\ Len(hist) = 4
    /\ hist[1].op = "Reject" /\ hist[1].p = 2
    /\ hist[2].op = "Resolve" /\ hist[2].p = 1
    /\ hist[3].op = "Race" /\ comb.ps = <<1, 2>>
    /\ hist[4].op = "Await"
    /\ co[1].pc = "done"
    /\ log = <<Delivered("await", 1, Payload(InputValue(1), 2))>>

\* ------------------------------------------------ reading generator runs
\* The some(v) results handed to consumers so far, in the order received.
IsSome(e) == e.kind = "value" /\ e.x # <<>>
Received == SelectSeq(log, IsSome)

\* The feed each received value, and then each queued value, came from.
Sources ==
    [i \in 1..Len(Received) |-> Received[i].tok]
        \o [j \in 1..Len(gen.values) |-> gen.values[j].tok]

\* ------------------------------------------------------------------ C18
\* C18: over every interleaving of Feed and co_await NextAsync() on one
\* generator, the values consumers received followed by the values still
\* queued are exactly the values fed, each once and in the order fed: what
\* was received is the fed sequence up to the number of values received.
C18_ReceivedIsFed ==
    OnlyOps({"Feed", "Next"})
    => /\ \A i, j \in 1..Len(Sources) : i < j => Sources[i] < Sources[j]
       /\ {Sources[i] : i \in 1..Len(Sources)} = Ops({"Feed"})
       /\ \A i \in 1..Len(Received) :
             Received[i].x = <<hist[Received[i].tok].x>>
       /\ \A j \in 1..Len(gen.values) :
             gen.values[j].x = hist[gen.values[j].tok].x

\* Two values were queued and then fetched, one by each consumer.
C18_Witness ==
    /\ Len(hist) = 4
    /\ hist[1].op = "Feed" /\ hist[2].op = "Feed"
    /\ hist[1].x # hist[2].x
    /\ hist[3].op = "Next" /\ hist[4].op = "Next"
    /\ Len(Received) = 2
    /\ Received[1].tok = 1 /\ Received[2].tok = 2
    /\ gen.values = <<>>

\* ------------------------------------------------------------------ C19
\* C19: in every state reached by any sequence of NextAsync, Feed, Finish
\* and Reject, a generator that holds a nextPromise has an empty queue, no
\* stored exception and is not finished.
C19_WaiterMeansIdle ==
    gen.nextPromise # 0
    => gen.values = <<>> /\ gen.exception = <<>> /\ ~gen.finished

\* A queued value was fetched and the next call then had to wait.
C19_Witness ==
    /\ Len(hist) = 3
    /\ hist[1].op = "Feed"
    /\ hist[2].op = "Next"
    /\ hist[3].op = "Next"
    /\ Len(Received) = 1
    /\ gen.nextPromise = hist[3].p
    /\ co[hist[3].x].pc = "parked"

\* ------------------------------------------------------------------ C20
\* The consumer parked on the registered nextPromise.
Waiting == st[gen.nextPromise].callingHandle

\* C20: a NextAsync made while a nextPromise is registered leaves the
\* generator, the registered promise and its parked consumer as they were
\* and returns a promise already rejected with the overlapping-calls
\* reason, which its caller's co_await raises at once. The consumer that
\* was waiting is the one the next Feed, Finish or Reject resumes: it
\* receives the fed value, the empty optional or the failure.
C20_OverlappingNext ==
    [][gen.nextPromise # 0
        => LET call == hist'[Len(hist')]
               p == gen.nextPromise
               c == Waiting
           IN  /\ Stepped("Next")
                  => /\ gen' = gen
                     /\ st'[p] = st[p] /\ co'[c] = co[c]
                     /\ st'[call.p].exception = <<Overlapping>>
                     /\ st'[call.p].value = <<>>
                     /\ co'[call.x].pc = "done"
                     /\ log' = Append(log, Raised("await", call.x, Overlapping))
               /\ Stepped("Feed")
                  => log' = Append(log, Delivered("await", c,
                                Payload(<<call.x>>, Len(hist'))))
               /\ Stepped("Finish")
                  => log' = Append(log, Delivered("await", c, None))
               /\ Stepped("GeneratorReject")
                  => log' = Append(log, Raised("await", c, call.m))]_vars

\* The second consumer's call was turned away and the first consumer then
\* received the value fed.
C20_Witness ==
    /\ Len(hist) = 3
    /\ hist[1].op = "Next" /\ hist[1].x = 1
    /\ hist[2].op = "Next" /\ hist[2].x = 2
    /\ hist[3].op = "Feed"
    /\ log = <<Raised("await", 2, Overlapping),
               Delivered("await", 1, Payload(<<hist[3].x>>, 3))>>
    /\ gen = NewGenerator

\* ------------------------------------------------------------------ C21
\* C21: once the generator is finished it stays finished, and a Feed made
\* after that neither queues its value nor hands it to a consumer.
C21_FinishedIsTerminal ==
    [][gen.finished
        => /\ gen'.finished
           /\ Stepped("Feed") => gen'.values = gen.values /\ log' = log]_vars

\* ------------------------------------------------------------------ C22
\* The empty optional has been handed to a consumer.
NoneReceived == \E i \in 1..Len(log) : log[i].kind = "value" /\ log[i].x = <<>>

\* C22: once the generator is finished and a consumer has received the
\* empty optional, every further co_await NextAsync() receives the empty
\* optional, whatever Feed, Finish or Reject calls were made in between.
C22_NoneIsFinal ==
    [][(gen.finished /\ NoneReceived /\ Stepped("Next"))
        => log' = Append(log, Delivered("await", hist'[Len(hist')].x, None))]_vars

\* ------------------------------------------------------------------ C23
\* C23: when Finish(r) finds a consumer parked on the held nextPromise,
\* that consumer is resumed inside the call with the empty optional, and
\* the GetReturnValue it calls at once, before Finish has returned,
\* succeeds and gives r.
C23_ReturnValueStoredFirst ==
    [][(Stepped("Finish") /\ gen.nextPromise # 0
            /\ co[Waiting].fin = "return_value")
        => /\ log' = Append(log, Delivered("await", Waiting, None))
           /\ co'[Waiting].pc = "done"
           /\ co'[Waiting].m = ""
           /\ co'[Waiting].x = hist'[Len(hist')].x]_vars

\* A consumer fetched the one queued value, parked on its second call and
\* read the return value when Finish resumed it.
C23_Witness ==
    /\ Len(hist) = 4
    /\ hist[1].op = "Feed"
    /\ hist[2].op = "Next" /\ hist[3].op = "Next" /\ hist[3].x = hist[2].x
    /\ hist[4].op = "Finish"
    /\ co[hist[3].x].fin = "return_value"
    /\ co[hist[3].x].x = hist[4].x
    /\ co[hist[3].x].m = ""
    /\ Len(log) = 2 /\ log[2].x = <<>>

\* ------------------------------------------------------------------ C24
\* C24 as claimed: GetReturnValue does not succeed while values are still
\* queued.
C24_OnlyWhenDrained ==
    [][(Stepped("GetReturnValue") /\ gen.values # <<>>)
        => hist'[Len(hist')].threw]_vars

\* C24: GetReturnValue succeeds only on a finished generator, and on a
\* generator finished with a return value it succeeds and gives that
\* value whether or not values are still queued.
C24_ObservableOnceFinished ==
    [][Stepped("GetReturnValue")
        => LET call == hist'[Len(hist')] IN
           /\ ~call.threw => gen.finished
           /\ (gen.finished /\ gen.returnValue # <<>>)
                 => ~call.threw /\ call.x = gen.returnValue[1]]_vars

\* The return value was read while a fed value was still queued.
C24_Witness ==
    /\ Len(hist) = 3
    /\ hist[1].op = "Feed"
    /\ hist[2].op = "Finish"
    /\ hist[3].op = "GetReturnValue" /\ ~hist[3].threw
    /\ hist[3].x = hist[2].x
    /\ Len(gen.values) = 1

\* ------------------------------------------------------------------ C25
\* C25: GetReturnValue throws exactly when the generator is not finished
\* or holds no return value, as after a Reject without a Finish; when it
\* succeeds it gives the stored value. Either way it leaves the generator,
\* the promises, the coroutines and the deliveries as they were.
C25_GetReturnValue ==
    [][Stepped("GetReturnValue")
        => LET call == hist'[Len(hist')] IN
           /\ call.threw = (~gen.finished \/ gen.returnValue = <<>>)
           /\ ~call.threw => call.x = gen.returnValue[1]
           /\ gen' = gen /\ st' = st /\ co' = co /\ log' = log]_vars

\* The generator was ended by Reject alone and GetReturnValue threw.
C25_Witness ==
    /\ Len(hist) = 2
    /\ hist[1].op = "GeneratorReject"
    /\ hist[2].op = "GetReturnValue" /\ hist[2].threw
    /\ gen.finished
    /\ gen.returnValue = <<>>

\* ------------------------------------------------------------------ C26
\* The one producer failure of the run, if it is the last thing fed or
\* rejected.
TheFailure == CHOOSE k \in Ops({"GeneratorReject"}) : TRUE
OneFailure ==
    /\ Cardinality(Ops({"GeneratorReject"})) = 1
    /\ \A i \in Ops({"Feed"}) : i < TheFailure

\* The co_awaits of NextAsync that raised the producer's failure.
RaisedFailure ==
    {i \in 1..Len(log) : log[i].kind = "error" /\ log[i].m = hist[TheFailure].m}

\* After one producer failure e, with nothing fed after it, the generator
\* is finished and e is either still held by the generator, not raised to
\* anyone, or was raised by exactly one co_await of NextAsync and is held
\* no more; every co_await of NextAsync completed after the one that
\* raised e received the empty optional.
FailureRaisedOnce ==
    OneFailure
    => /\ gen.finished
       /\ Cardinality(RaisedFailure) <= 1
       /\ (RaisedFailure = {}) = (gen.exception = <<hist[TheFailure].m>>)
       /\ RaisedFailure # {} => gen.exception = <<>>
       /\ \A i \in RaisedFailure : \A j \in 1..Len(log) :
             j > i => log[j].kind = "value" /\ log[j].x = <<>>

\* A Reject that finds a consumer parked raises its reason in that
\* consumer at once and stores nothing; a Reject that finds none stores
\* it, and a stored failure is raised by the NextAsync that finds the
\* queue empty.
FailureGoesToWaiterOrIsHeld ==
    /\ Stepped("GeneratorReject")
       => LET e == hist'[Len(hist')].m IN
          IF gen.nextPromise # 0
          THEN /\ log' = Append(log, Raised("await", Waiting, e))
               /\ gen'.exception = <<>>
          ELSE log' = log /\ gen'.exception = <<e>>
    /\ (Stepped("Next") /\ gen.values = <<>> /\ gen.exception # <<>>)
       => /\ log' = Append(log, Raised("await", hist'[Len(hist')].x,
                                       gen.exception[1]))
          /\ gen'.exception = <<>>

\* C26: a producer failure e reaches exactly one co_await of NextAsync:
\* the parked consumer if there is one, else it is held and raised by one
\* later NextAsync; the generator is finished, and once e was raised every
\* further NextAsync receives the empty optional (one failure, nothing fed
\* after it).
C26_FailureDeliveredToOneNext ==
    []FailureRaisedOnce /\ [][FailureGoesToWaiterOrIsHeld]_vars

\* The failure found nobody waiting, was raised by the next call and the
\* call after that received the empty optional.
C26_Witness ==
    /\ Len(hist) = 3
    /\ hist[1].op = "GeneratorReject"
    /\ hist[2].op = "Next" /\ hist[3].op = "Next"
    /\ log = <<Raised("await", hist[2].x, hist[1].m),
               Delivered("await", hist[3].x, None)>>
    /\ gen.exception = <<>> /\ gen.finished

\* ------------------------------------------------------------------ C27
\* Once the generator coroutine is over the generator is finished, holds
\* no nextPromise and no consumer is parked.
DoneMeansFinished ==
    producer.pc = "done"
    => /\ gen.finished
       /\ gen.nextPromise = 0
       /\ \A c \in Awaiters : co[c].pc # "parked"

\* The step in which the coroutine runs to its end without yielding again
\* resumes the consumer parked on the generator with the empty optional or,
\* if the body threw, with what it threw; and once the coroutine is over
\* a co_await of NextAsync that finds nothing queued or held receives the
\* empty optional at once.
DoneReleasesConsumer ==
    /\ (/\ producer.pc # "done" /\ producer'.pc = "done"
        /\ gen.nextPromise # 0
        /\ \A i \in DOMAIN producer.body : producer.body[i] # "yield")
       => /\ co'[Waiting].pc = "done"
          /\ LET last == log'[Len(log')] IN
             /\ Len(log') > Len(log)
             /\ last.to = "await" /\ last.id = Waiting
             /\ \/ last.kind = "value" /\ last.x = <<>>
                \/ last.kind = "error" /\ last.m = Thrown
    /\ (producer.pc = "done" /\ Stepped("Next")
            /\ gen.values = <<>> /\ gen.exception = <<>>)
       => log' = Append(log, Delivered("await", hist'[Len(hist')].x, None))

\* C27: a generator coroutine returning AsyncGenerator<T, void> finishes
\* its generator when it completes, whether its body ends, is empty or
\* throws: the consumer parked at that moment is resumed, no consumer is
\* parked afterwards, and a consumer that goes on calling NextAsync
\* receives the empty optional once the queue and the failure are taken.
C27_CompletionFinishes ==
    []DoneMeansFinished /\ [][DoneReleasesConsumer]_vars

\* A consumer parked on a generator whose body had only suspended; the
\* timer fired, the body ended and the consumer received the empty
\* optional.
C27_Witness ==
    /\ Len(hist) = 3
    /\ hist[1].op = "Start" /\ hist[1].x = 1
    /\ hist[2].op = "Next"
    /\ hist[3].op = "Timer"
    /\ producer.pc = "done"
    /\ log = <<Delivered("await", hist[2].x, None)>>

\* ------------------------------------------------------------------ C28
\* The promise behind the request was settled by an earlier step: its
\* timeout fired or it was cancelled.
RequestSettled == Ops({"Timeout", "Cancel"}) # {}

CancelRejectsIffUnsettled ==
    Stepped("Cancel")
    => IF RequestSettled
       THEN /\ st'[Direct].exception = st[Direct].exception
            /\ log' = log
            /\ co' = co
            /\ ~crashed'
       ELSE /\ st'[Direct].exception = <<Cancelled>>
            /\ timer'.pc = "cleared"
            /\ \A i \in 1..Len(log') : i > Len(log) =>
                   log'[i].kind = "error" /\ log'[i].m = Cancelled

\* C28: Cancel() rejects the promise of the request with the cancelled
\* failure exactly when the promise has not settled yet; after the promise
\* settled, also after its value was delivered to the awaiting coroutine,
\* Cancel() rejects nothing and resumes nobody, and after a Cancel() before
\* settlement no value is delivered.
C28_CancelOnlyBeforeSettlement ==
    [][CancelRejectsIffUnsettled]_vars

\* ------------------------------------------------------------------ C29
\* The step is the first Resolve or Reject on the promise.
FirstSettlement ==
    /\ Ops({"Resolve", "Reject"}) = {}
    /\ (Stepped("Resolve") \/ Stepped("Reject"))

\* What the settling call of this step hands over, as a delivery to
\* recipient id of the kind to ("await", "then" or "catch").
Handed(to, id) ==
    LET c == hist'[Len(hist')] IN
    IF c.op = "Resolve"
    THEN Delivered(to, id, Payload(c.x, Len(hist')))
    ELSE Raised(to, id, c.m)

\* The settling call takes one of three paths: the coroutine parked on
\* the promise is resumed inside the call and receives the outcome, and
\* no callback runs; else the matching callback is invoked with it; else
\* nothing is delivered and the promise holds the outcome.
OneOfThreePaths ==
    FirstSettlement
    => LET c == hist'[Len(hist')]
           cb == IF c.op = "Resolve" THEN D.thenCallback ELSE D.catchCallback
       IN  IF D.callingHandle # 0
           THEN /\ co[D.callingHandle].pc = "parked"
                /\ co'[D.callingHandle].pc = "done"
                /\ log' = Append(log, Handed("await", D.callingHandle))
           ELSE IF cb # 0
           THEN log' = Append(log, Handed(IF c.op = "Resolve" THEN "then"
                                                              ELSE "catch", cb))
           ELSE /\ log' = log
                /\ co' = co
                /\ await_ready(st'[Direct])
                /\ IF c.op = "Resolve"
                   THEN st'[Direct].value = <<Payload(c.x, Len(hist'))>>
                   ELSE st'[Direct].exception = <<c.m>>

\* Nothing was delivered while no Resolve or Reject has been called.
NothingBeforeSettlement ==
    Ops({"Resolve", "Reject"}) = {} => log = <<>>

\* C29: the first Resolve(v) or Reject(e) on a promise takes exactly one
\* of three paths: the parked coroutine is resumed inside the call and
\* receives v or raises e; else the matching callback is invoked inside
\* the call with v or e; else the outcome is stored. No coroutine or
\* callback receives anything before Resolve or Reject is called.
C29_OneOfThreePaths ==
    []NothingBeforeSettlement /\ [][OneOfThreePaths]_vars

\* A promise with a catch callback and a parked coroutine was rejected:
\* the coroutine, not the callback, received the failure.
C29_Witness ==
    /\ Len(hist) = 3
    /\ hist[1].op = "Catch" /\ hist[2].op = "Await" /\ hist[3].op = "Reject"
    /\ log = <<Raised("await", hist[2].x, hist[3].m)>>

\* ------------------------------------------------------------------ C30
HandleClearedOnResume ==
    ((Stepped("Resolve") \/ Stepped("Reject")) /\ D.callingHandle # 0)
    => st'[Direct].callingHandle = 0

\* C30: a Resolve or Reject that finds a coroutine parked on the promise
\* leaves the promise without a handle, so that no later call on the
\* promise resumes that coroutine again.
C30_HandleCleared ==
    [][HandleClearedOnResume]_vars

\* ------------------------------------------------------------------ C31
\* Deliveries made so far to callbacks of the kind to ("then" or "catch").
Fired(to) == {i \in 1..Len(log) : log[i].to = to}

\* No more callbacks have run than were registered.
FiredAtMostOnce ==
    /\ Cardinality(Fired("then")) <= Cardinality(Ops({"Then"}))
    /\ Cardinality(Fired("catch")) <= Cardinality(Ops({"Catch"}))

\* A step in which a callback ran leaves the promise without it.
ClearedAfterFiring ==
    /\ (\E i \in 1..Len(log') : i > Len(log) /\ log'[i].to = "then")
       => st'[Direct].thenCallback = 0
    /\ (\E i \in 1..Len(log') : i > Len(log) /\ log'[i].to = "catch")
       => st'[Direct].catchCallback = 0

\* C31: thenCallback and catchCallback are single-shot: a registered
\* callback is invoked at most once, and once it has been invoked the
\* promise no longer holds it.
C31_CallbacksSingleShot ==
    []FiredAtMostOnce /\ [][ClearedAfterFiring]_vars

\* ------------------------------------------------------------------ C32
\* Nothing is queued, no failure is held, the generator is not finished
\* and no NextAsync is waiting.
NothingToServe ==
    /\ gen.values = <<>>
    /\ gen.exception = <<>>
    /\ ~gen.finished
    /\ gen.nextPromise = 0

SuspendsIffNothingToServe ==
    Stepped("Next")
    => LET p == hist'[Len(hist')].p
           c == hist'[Len(hist')].x
       IN  IF NothingToServe
           THEN /\ ~await_ready(st'[p])
                /\ gen'.nextPromise = p
                /\ co'[c].pc = "parked"
                /\ log' = log
           ELSE /\ gen'.nextPromise = gen.nextPromise
                /\ co'[c].pc = "done"
                /\ Len(log') = Len(log) + 1
                /\ log'[Len(log')].to = "await" /\ log'[Len(log')].id = c

\* C32: the promise returned by NextAsync is unsettled, so that the
\* co_await on it suspends the consumer, exactly when at the call no value
\* is queued, no failure is held, the generator is not finished and no
\* other NextAsync is waiting; in every other case the promise is settled
\* when NextAsync returns and the co_await completes at once.
C32_SuspendsIffNothingToServe ==
    [][SuspendsIffNothingToServe]_vars

\* The first NextAsync suspended its consumer; a second one overlapped it
\* and completed at once with the overlap failure; Finish then released
\* the first with the empty optional.
C32_Witness ==
    /\ Len(hist) = 3
    /\ hist[1].op = "Next" /\ hist[2].op = "Next" /\ hist[3].op = "Finish"
    /\ co[hist[1].x].pc = "done" /\ co[hist[2].x].pc = "done"
    /\ Len(log) = 2
    /\ log[1].kind = "error" /\ log[1].m = Overlapping
    /\ log[2].kind = "value" /\ log[2].x = <<>>

\* ------------------------------------------------------------------ C33
\* What the producer call of this step hands to consumer c.
HandedByProducer(c) ==
    LET k == hist'[Len(hist')] IN
    CASE k.op = "Feed" -> Delivered("await", c, Some(Payload(k.x, Len(hist'))))
      [] k.op = "Finish" -> Delivered("await", c, None)
      [] OTHER -> Raised("await", c, k.m)

ProducerSettlesWaiter ==
    (Stepped("Feed") \/ Stepped("Finish") \/ Stepped("GeneratorReject"))
    => IF gen.nextPromise # 0
       THEN /\ gen'.nextPromise = 0
            /\ gen'.values = gen.values
            /\ co[Waiting].pc = "parked"
            /\ co'[Waiting].pc = "done"
            /\ log' = Append(log, HandedByProducer(Waiting))
       ELSE /\ log' = log
            /\ \A c \in Awaiters : co'[c].pc = co[c].pc
            /\ Stepped("Feed")
               => gen'.values = Append(gen.values,
                                       Payload(hist'[Len(hist')].x, Len(hist')))

\* C33: while a NextAsync is waiting, the next Feed, Finish or Reject
\* settles its promise inside the call and takes it out of the generator:
\* Feed(v) resolves it with v and queues nothing, Finish resolves it with
\* the empty optional, Reject(e) rejects it with e. With no NextAsync
\* waiting, Feed(v) puts v at the back of the queue and settles nothing.
C33_ProducerSettlesWaiter ==
    [][ProducerSettlesWaiter]_vars

\* A waiting NextAsync was served by Feed, and the next Feed, finding no
\* waiter, queued its value.
C33_Witness ==
    /\ Len(hist) = 3
    /\ hist[1].op = "Next" /\ hist[2].op = "Feed" /\ hist[3].op = "Feed"
    /\ log = <<Delivered("await", hist[1].x, Some(Payload(hist[2].x, 2)))>>
    /\ gen.values = <<Payload(hist[3].x, 3)>>

\* ------------------------------------------------------------------ C34
\* The delivery is the end of the stream or a producer failure.
Terminal(e) ==
    \/ e.kind = "value" /\ e.x = <<>>
    \/ e.kind = "error" /\ e.m # Overlapping

\* A step that delivers the end of the stream or a producer failure finds
\* every value fed so far delivered already.
ValuesBeforeTerminal ==
    \A j \in 1..Len(log') :
        (j > Len(log) /\ Terminal(log'[j]))
        => \A k \in Ops({"Feed"}) :
              \E i \in 1..(j - 1) :
                 /\ log'[i].kind = "value"
                 /\ log'[i].x = <<hist[k].x>>
                 /\ log'[i].tok = k

\* C34: the end of the stream and a producer failure never overtake
\* produced values: when a consumer receives the empty optional or the
\* failure, every value fed before has been delivered, NextAsync serving
\* the queue first, then the held failure, then the end.
C34_ValuesBeforeTerminal ==
    [][ValuesBeforeTerminal]_vars

\* A value was fed and the producer then failed; the consumer received
\* the value first and the failure second.
C34_Witness ==
    /\ Len(hist) = 4
    /\ hist[1].op = "Feed" /\ hist[2].op = "GeneratorReject"
    /\ hist[3].op = "Next" /\ hist[4].op = "Next"
    /\ Len(log) = 2
    /\ log[1].kind = "value" /\ log[1].tok = 1
    /\ log[2].kind = "error" /\ log[2].m = hist[2].m

\* ------------------------------------------------------------------ C35
\* A producer call that finds a looping consumer waiting resumes it inside
\* the call, and the consumer calls NextAsync again at once. After Feed it
\* is registered as the new waiter, on a new unsettled promise that the
\* rest of Feed leaves alone; after Finish or Reject it is served the end
\* from the generator. The overlap failure is raised to no one.
ResumedConsumerCallsAgain ==
    ((Stepped("Feed") \/ Stepped("Finish") \/ Stepped("GeneratorReject"))
        /\ gen.nextPromise # 0)
    => LET c == Waiting
           p == gen'.nextPromise
       IN  /\ \A i \in 1..Len(log') :
                 i > Len(log) => ~(log'[i].kind = "error" /\ log'[i].m = Overlapping)
           /\ IF Stepped("Feed")
              THEN /\ log' = Append(log, HandedByProducer(c))
                   /\ p # 0 /\ p # gen.nextPromise
                   /\ ~await_ready(st'[p])
                   /\ st'[p].callingHandle = c
                   /\ co'[c].pc = "parked" /\ co'[c].on = p
                   /\ gen'.values = <<>>
              ELSE /\ log' = log \o <<HandedByProducer(c),
                                      Delivered("await", c, None)>>
                   /\ p = 0
                   /\ co'[c].pc = "done"

\* C35: Feed, Finish and Reject take the waiting promise out of the
\* generator before they settle it, so a consumer resumed inside the
\* producer call that calls NextAsync again at once is served from the
\* generator or registered as a new waiter; it is never rejected for
\* overlapping, and the rest of the producer call neither clears nor
\* settles the new waiter.
C35_ResumedConsumerCallsAgain ==
    [][ResumedConsumerCallsAgain]_vars

\* A looping consumer was fed twice while waiting: it received both
\* values and waits on a third promise.
C35_Witness ==
    /\ Len(hist) = 3
    /\ hist[1].op = "Next" /\ hist[2].op = "Feed" /\ hist[3].op = "Feed"
    /\ Len(log) = 2
    /\ log[1].tok = 2 /\ log[2].tok = 3
    /\ gen.nextPromise # 0
    /\ co[hist[1].x].pc = "parked"
    /\ co[hist[1].x].on = gen.nextPromise

\* ------------------------------------------------------------------ C36
\* C36: under any sequence of Resolve and Reject calls a promise never
\* holds a value and a failure at once, so that await_resume never has to
\* choose between them.
C36_ValueOrErrorNotBoth ==
    ~(D.value # <<>> /\ D.exception # <<>>)

\* ------------------------------------------------------------------ C37
\* The outcomes the result promise shows: what it holds and what its
\* awaiter was handed.
Shown ==
    {<<"value", R.value[i].x>> : i \in DOMAIN R.value}
        \cup {<<"error", R.exception[i]>> : i \in DOMAIN R.exception}
        \cup {<<log[i].kind, IF log[i].kind = "value" THEN log[i].x ELSE log[i].m>> :
                 i \in DOMAIN log}

\* The result promise shows the work of one settling call at most: one
\* outcome, handed to the awaiter once at most, a value never both handed
\* over and held, and no resume of a coroutine that had been resumed.
SettledByOneCall ==
    (SettledOnce /\ comb.returned)
    => /\ Cardinality(Shown) <= 1
       /\ Len(log) <= 1
       /\ R.value # <<>> => log = <<>>
       /\ ~crashed

\* Once the result promise shows an outcome, no later step that leaves
\* every input settled at most once makes it show another.
OutcomeStays ==
    (SettledOnce' /\ comb.returned /\ Shown # {}) => Shown' = Shown

\* C37: for All, Any and Race alike, with every input settled at most
\* once, the result promise is settled by one call at most, a Resolve or
\* a Reject, in every order of the inputs' settlements and also when
\* inputs were settled before the call.
C37_ResultSettledOnce ==
    []SettledByOneCall /\ [][OutcomeStays]_vars

\* Race over two inputs, the first rejected and the second resolved
\* before the call: the result holds the first one's failure only.
C37_Witness ==
    /\ Len(hist) = 3
    /\ hist[1].op = "Reject" /\ hist[1].p = 1
    /\ hist[2].op = "Resolve" /\ hist[2].p = 2
    /\ hist[3].op = "Race" /\ comb.returned /\ comb.ps = <<1, 2>>
    /\ R.exception = <<InputReason(1)>>
    /\ R.value = <<>>

\* ------------------------------------------------------------------ C38
\* A coroutine is parked on promise p.
ParkedOn(p) == \E c \in Awaiters : co[c].pc = "parked" /\ co[c].on = p

\* C38: All, Any or Race called with a vector holding a promise on which
\* a coroutine is parked throws, and the call is atomic: it has registered
\* no callback on any input and consumed no stored value of any input.
C38_AwaitedInputFailsAtomically ==
    [][((\E op \in Combinators : Stepped(op))
          /\ \E i \in 1..Len(comb'.ps) : ParkedOn(comb'.ps[i]))
       => /\ hist'[Len(hist')].threw
          /\ \A p \in Inputs : st'[p] = st[p]
          /\ log' = log]_vars
====
